---- MODULE Spec2Model ----
(***************************************************************************)
(* Eigen/src/Array/Replicate.h: the expression node Replicate<MatrixType,  *)
(* RowFactor,ColFactor>, its traits, its two constructors, rows(), cols(), *)
(* coeff(), and the three factory functions that build it.                 *)
(*                                                                         *)
(* An expression is a plain matrix m (the leaf) wrapped in a sequence xpr  *)
(* of Replicate nodes, xpr[1] being the node built directly on m and       *)
(* xpr[Len(xpr)] the outermost node.  Indices are 0-based as in the code.  *)
(***************************************************************************)
EXTENDS Integers, Sequences, FiniteSets, TLC

\* Bounds of the single-node specification Spec.
MaxRows == 2
MaxCols == 3
MaxFactor == 4

\* Bounds of the nested specification SpecNested.
NestDepth == 2
MaxNestedDim == 2
MaxNestedFactor == 2

\* Eigen's marker for a size or factor that is not known at compile time.
Dynamic == 10000

\* First element of the matrices the model draws: element (r,c) of an R x C
\* matrix is base + r*C + c, so all elements of one matrix are distinct.
Bases == {1, 5}

VARIABLES m, xpr, status, call, access

vars == <<m, xpr, status, call, access>>

----------------------------------------------------------------------------
(* The source matrix (MatrixType).                                         *)

\* A matrix type either fixes a dimension at compile time (the runtime
\* dimension then equals it) or leaves it Dynamic.
MatrixOf(R, C, base, rowFixed, colFixed) ==
    [kind |-> "Matrix", rows |-> R, cols |-> C,
     RowsAtCompileTime |-> IF rowFixed THEN R ELSE Dynamic,
     ColsAtCompileTime |-> IF colFixed THEN C ELSE Dynamic,
     coeffs |-> [p \in (0..(R-1)) \X (0..(C-1)) |-> base + p[1] * C + p[2]]]

SourceMatrices(maxR, maxC, bases) ==
    { MatrixOf(R, C, b, rf, cf) :
        R \in 1..maxR, C \in 1..maxC, b \in bases,
        rf \in BOOLEAN, cf \in BOOLEAN }

\* Reading element (r,c) of a plain matrix: the stored element when the index
\* is in range.  Out of range the read is undefined behaviour: the build may
\* return any neighbouring element, a foreign value (0), or stop on an
\* internal assertion.
MatrixCoeff(mat, r, c) ==
    IF r \in 0..(mat.rows - 1) /\ c \in 0..(mat.cols - 1)
    THEN { [outcome |-> "value", value |-> mat.coeffs[<<r, c>>]] }
    ELSE { [outcome |-> "value", value |-> v] :
             v \in { mat.coeffs[p] : p \in DOMAIN mat.coeffs } \cup {0} }
         \cup { [outcome |-> "crash", value |-> 0] }

----------------------------------------------------------------------------
(* ei_int_if_dynamic<Value>: holds a runtime int only when Value is        *)
(* Dynamic; otherwise value() is the compile-time Value.                   *)

ei_int_if_dynamic(Value, v) ==
    [Value |-> Value, m_value |-> IF Value = Dynamic THEN v ELSE Value]

value(x) == IF x.Value = Dynamic THEN x.m_value ELSE x.Value

----------------------------------------------------------------------------
(* class Replicate                                                         *)

RECURSIVE Rows(_), Cols(_), RowsAtCompileTimeOf(_), ColsAtCompileTimeOf(_)
RECURSIVE EvalCoeff(_, _, _), Depth(_), Leaf(_)

\* ei_assert of the fixed-factor constructor.
FixedFactorsAssert_anyFixed(RowFactor, ColFactor) ==
    RowFactor # Dynamic \/ ColFactor # Dynamic

FixedFactorsAssert(RowFactor, ColFactor) ==
    RowFactor # Dynamic /\ ColFactor # Dynamic

\* Replicate(const OriginalMatrixType& matrix)
Replicate1(matrix, RowFactor, ColFactor) ==
    [kind |-> "Replicate", m_matrix |-> matrix,
     RowFactor |-> RowFactor, ColFactor |-> ColFactor,
     m_rowFactor |-> ei_int_if_dynamic(RowFactor, RowFactor),
     m_colFactor |-> ei_int_if_dynamic(ColFactor, ColFactor)]

\* Replicate(const OriginalMatrixType& matrix, int rowFactor, int colFactor)
Replicate2(matrix, RowFactor, ColFactor, rowFactor, colFactor) ==
    [kind |-> "Replicate", m_matrix |-> matrix,
     RowFactor |-> RowFactor, ColFactor |-> ColFactor,
     m_rowFactor |-> ei_int_if_dynamic(RowFactor, rowFactor),
     m_colFactor |-> ei_int_if_dynamic(ColFactor, colFactor)]

rows_sum(x) == Rows(x.m_matrix) + value(x.m_rowFactor)

\* Replicate::rows() and Replicate::cols()
rows(x) == Rows(x.m_matrix) * value(x.m_rowFactor)

cols(x) == Cols(x.m_matrix) * value(x.m_colFactor)

\* rows() / cols() of any expression: a plain matrix or a Replicate node.
Rows(e) == IF e.kind = "Matrix" THEN e.rows ELSE rows(e)

Cols(e) == IF e.kind = "Matrix" THEN e.cols ELSE cols(e)

coeff_generalNoRowModulo(x, row, col) ==
    IF x.RowFactor = 1
    THEN <<Rows(x.m_matrix), col % Cols(x.m_matrix)>>
    ELSE IF x.ColFactor = 1
    THEN <<row % Rows(x.m_matrix), Cols(x.m_matrix)>>
    ELSE <<row, col % Cols(x.m_matrix)>>

\* Replicate::coeff(row, col): the index pair it hands to m_matrix.coeff.
coeff(x, row, col) ==
    IF x.RowFactor = 1
    THEN <<Rows(x.m_matrix), col % Cols(x.m_matrix)>>
    ELSE IF x.ColFactor = 1
    THEN <<row % Rows(x.m_matrix), Cols(x.m_matrix)>>
    ELSE <<row % Rows(x.m_matrix), col % Cols(x.m_matrix)>>

\* coeff(row, col) of any expression: the set of outcomes the call can have.
EvalCoeff(e, row, col) ==
    IF e.kind = "Matrix"
    THEN MatrixCoeff(e, row, col)
    ELSE LET p == coeff(e, row, col)
         IN  EvalCoeff(e.m_matrix, p[1], p[2])

RowsAtCompileTime_factorOnly(x) ==
    IF x.RowFactor = Dynamic
    THEN Dynamic
    ELSE x.RowFactor * RowsAtCompileTimeOf(x.m_matrix)

\* ei_traits<Replicate>
RowsAtCompileTime(x) ==
    IF x.RowFactor = Dynamic \/ RowsAtCompileTimeOf(x.m_matrix) = Dynamic
    THEN Dynamic
    ELSE x.RowFactor * RowsAtCompileTimeOf(x.m_matrix)

ColsAtCompileTime(x) ==
    IF x.ColFactor = Dynamic \/ ColsAtCompileTimeOf(x.m_matrix) = Dynamic
    THEN Dynamic
    ELSE x.ColFactor * ColsAtCompileTimeOf(x.m_matrix)

MaxRowsAtCompileTime(x) == RowsAtCompileTime(x)

MaxColsAtCompileTime(x) == ColsAtCompileTime(x)

RowsAtCompileTimeOf(e) ==
    IF e.kind = "Matrix" THEN e.RowsAtCompileTime ELSE RowsAtCompileTime(e)

ColsAtCompileTimeOf(e) ==
    IF e.kind = "Matrix" THEN e.ColsAtCompileTime ELSE ColsAtCompileTime(e)

\* Number of Replicate nodes of an expression, and the matrix at its bottom.
Depth(e) == IF e.kind = "Matrix" THEN 0 ELSE 1 + Depth(e.m_matrix)

Leaf(e) == IF e.kind = "Matrix" THEN e ELSE Leaf(e.m_matrix)

----------------------------------------------------------------------------
(* State.  m: the source matrix.  xpr: the expression built so far (m or a *)
(* Replicate over it).  status: "source" before any node is built,        *)
(* "constructed" after a constructor returned, "assert_failed" when the    *)
(* constructor's ei_assert stopped the program.  call: the last            *)
(* constructor call.  access: the last coeff() call on xpr.                *)

NoCall == [ctor |-> "none", factory |-> "none", RowFactor |-> 0, ColFactor |-> 0,
           rowFactor |-> 0, colFactor |-> 0]

NoAccess == [called |-> FALSE, row |-> 0, col |-> 0, srcRow |-> 0, srcCol |-> 0,
             outcome |-> "none", value |-> 0]

\* Template arguments and runtime arguments a factor can take.
TemplateFactors(maxF) == (1..maxF) \cup {Dynamic}

InitWith(sources) ==
    /\ m \in sources
    /\ xpr = m
    /\ status = "source"
    /\ call = NoCall
    /\ access = NoAccess

Init == InitWith(SourceMatrices(MaxRows, MaxCols, Bases))

InitNested == InitWith(SourceMatrices(MaxNestedDim, MaxNestedDim, {1}))

\* A constructor call on the current expression: the fixed-factor
\* constructor stops on its assertion, the dynamic-factor one has none.
Construct(ctor, factory, RowFactor, ColFactor, rowFactor, colFactor) ==
    /\ status # "assert_failed"
    /\ call' = [ctor |-> ctor, factory |-> factory,
                RowFactor |-> RowFactor, ColFactor |-> ColFactor,
                rowFactor |-> rowFactor, colFactor |-> colFactor]
    /\ access' = NoAccess
    /\ m' = m
    /\ IF ctor = "fixed" /\ ~FixedFactorsAssert(RowFactor, ColFactor)
       THEN /\ status' = "assert_failed"
            /\ xpr' = xpr
       ELSE /\ status' = "constructed"
            /\ xpr' = IF ctor = "fixed"
                      THEN Replicate1(xpr, RowFactor, ColFactor)
                      ELSE Replicate2(xpr, RowFactor, ColFactor, rowFactor, colFactor)

\* DenseBase::replicate<RowFactor,ColFactor>()
ReplicateFixed(RowFactor, ColFactor) ==
    Construct("fixed", "replicate<>", RowFactor, ColFactor, RowFactor, ColFactor)

\* DenseBase::replicate(int rowFactor, int colFactor)
ReplicateDynamic(rowFactor, colFactor) ==
    Construct("dynamic", "replicate(int,int)", Dynamic, Dynamic, rowFactor, colFactor)

\* VectorwiseOp<ExpressionType,Direction>::replicate(int factor)
VectorwiseReplicate(Direction, factor) ==
    Construct("dynamic", Direction,
              IF Direction = "Vertical" THEN Dynamic ELSE 1,
              IF Direction = "Horizontal" THEN Dynamic ELSE 1,
              IF Direction = "Vertical" THEN factor ELSE 1,
              IF Direction = "Horizontal" THEN factor ELSE 1)

\* The dynamic-factor constructor used directly on a node type that mixes a
\* fixed and a dynamic factor, or fixes both; ei_int_if_dynamic<Value>
\* requires the int passed for a fixed factor to equal Value.
ReplicateDirect(RowFactor, ColFactor, rowFactor, colFactor) ==
    /\ RowFactor # Dynamic => rowFactor = RowFactor
    /\ ColFactor # Dynamic => colFactor = ColFactor
    /\ Construct("dynamic", "Replicate", RowFactor, ColFactor, rowFactor, colFactor)

\* xpr.coeff(row, col), called within the precondition 0 <= row < rows(),
\* 0 <= col < cols().  coeff() is const and the node is immutable, so a
\* later call starts from the same node: access keeps one call per node.
CallCoeff(row, col) ==
    /\ status = "constructed"
    /\ ~access.called
    /\ row \in 0..(rows(xpr) - 1)
    /\ col \in 0..(cols(xpr) - 1)
    /\ \E out \in EvalCoeff(xpr, row, col) :
         access' = [called |-> TRUE, row |-> row, col |-> col,
                    srcRow |-> coeff(xpr, row, col)[1],
                    srcCol |-> coeff(xpr, row, col)[2],
                    outcome |-> out.outcome, value |-> out.value]
    /\ UNCHANGED <<m, xpr, status, call>>

NextUpTo(depth, maxF) ==
    \/ /\ Depth(xpr) < depth
       /\ \E RF, CF \in TemplateFactors(maxF) : ReplicateFixed(RF, CF)
    \/ /\ Depth(xpr) < depth
       /\ \E rf, cf \in 1..maxF : ReplicateDynamic(rf, cf)
    \/ /\ Depth(xpr) < depth
       /\ \E d \in {"Vertical", "Horizontal"}, f \in 1..maxF : VectorwiseReplicate(d, f)
    \/ /\ Depth(xpr) < depth
       /\ \E RF, CF \in TemplateFactors(maxF), rf, cf \in 1..maxF :
            ReplicateDirect(RF, CF, rf, cf)
    \/ /\ status = "constructed" /\ ~access.called
       /\ \E row \in 0..(rows(xpr) - 1), col \in 0..(cols(xpr) - 1) : CallCoeff(row, col)

Next == NextUpTo(1, MaxFactor)

NextNested == NextUpTo(NestDepth, MaxNestedFactor)

Spec == Init /\ [][Next]_vars

SpecNested == InitNested /\ [][NextNested]_vars

----------------------------------------------------------------------------
(* Properties.                                                             *)

Constructed == status = "constructed"

Accessed == status = "constructed" /\ access.called

\* The factors a constructor call asks for: the template argument when it
\* is fixed, the runtime argument when it is Dynamic.
GivenRowFactor == IF call.RowFactor # Dynamic THEN call.RowFactor ELSE call.rowFactor

GivenColFactor == IF call.ColFactor # Dynamic THEN call.ColFactor ELSE call.colFactor

\* The element of the source matrix the contract names for access (row, col).
Expected(row, col) == m.coeffs[<<row % m.rows, col % m.cols>>]

ReturnsExpected ==
    access.outcome = "value" /\ access.value = Expected(access.row, access.col)

\* C1: for every valid index and every factor configuration, coeff(row, col)
\* returns the source element at (row mod sourceRows, col mod sourceCols).
C1_CoeffContract == Accessed => ReturnsExpected

\* C2: the view reports rows() = rf * R and cols() = cf * C for the factors
\* given, whether as compile-time constants or as runtime values.
C2_Dimensions ==
    Constructed => /\ rows(xpr) = GivenRowFactor * m.rows
                   /\ cols(xpr) = GivenColFactor * m.cols

C2_Witness ==
    /\ Constructed
    /\ m.rows = 2 /\ m.cols = 2
    /\ call.factory = "replicate(int,int)"
    /\ call.rowFactor = 2 /\ call.colFactor = 3
    /\ rows(xpr) = 4 /\ cols(xpr) = 6

\* C3: replicating with factors (1,1), by replicate<1,1>() or replicate(1,1),
\* gives a view of the dimensions of M whose coeff(row, col) is M.coeff(row, col).
C3_Identity ==
    (Constructed /\ GivenRowFactor = 1 /\ GivenColFactor = 1
        /\ call.factory \in {"replicate<>", "replicate(int,int)"})
    => /\ rows(xpr) = m.rows
       /\ cols(xpr) = m.cols
       /\ access.called =>
            /\ access.outcome = "value"
            /\ access.value = m.coeffs[<<access.row, access.col>>]

\* C4: VectorwiseOp::replicate(factor) builds a node with the runtime factor
\* on the replicated axis and the fixed factor 1 on the other, and every
\* element of the output is the source element at (row mod R, col mod C); a
\* 1 x C row vector replicated n times along the rows gives n x C.
C4_Vectorwise ==
    (Constructed /\ call.factory \in {"Vertical", "Horizontal"})
    => /\ call.factory = "Vertical" =>
            /\ xpr.RowFactor = Dynamic /\ value(xpr.m_rowFactor) = call.rowFactor
            /\ xpr.ColFactor = 1
            /\ rows(xpr) = call.rowFactor * m.rows /\ cols(xpr) = m.cols
       /\ call.factory = "Horizontal" =>
            /\ xpr.ColFactor = Dynamic /\ value(xpr.m_colFactor) = call.colFactor
            /\ xpr.RowFactor = 1
            /\ cols(xpr) = call.colFactor * m.cols /\ rows(xpr) = m.rows
       /\ access.called => ReturnsExpected

\* The single views replicate(M, rf1*rf2, cf1*cf2), in fixed and in dynamic
\* form, that a twice-replicated expression e is compared with.
SingleViews(e) ==
    LET rf == value(e.m_rowFactor) * value(e.m_matrix.m_rowFactor)
        cf == value(e.m_colFactor) * value(e.m_matrix.m_colFactor)
    IN  { Replicate1(m, rf, cf), Replicate2(m, Dynamic, Dynamic, rf, cf) }

\* C5: replicating replicate(M, rf1, cf1) by (rf2, cf2) gives the dimensions
\* and, at every valid index, the element of replicate(M, rf1*rf2, cf1*cf2).
C5_NestedTiling ==
    (Constructed /\ Depth(xpr) = 2)
    => \A s \in SingleViews(xpr) :
         /\ rows(xpr) = rows(s)
         /\ cols(xpr) = cols(s)
         /\ access.called =>
              EvalCoeff(s, access.row, access.col)
                = { [outcome |-> access.outcome, value |-> access.value] }

\* C6: the fixed-factor constructor ends in an assertion failure when either
\* factor of the node type is Dynamic and otherwise succeeds, storing the
\* compile-time factors; the dynamic-factor constructor never raises it.
C6_ConstructorAssertion ==
    /\ (call.ctor = "fixed" /\ (call.RowFactor = Dynamic \/ call.ColFactor = Dynamic))
       => status = "assert_failed"
    /\ (call.ctor = "fixed" /\ call.RowFactor # Dynamic /\ call.ColFactor # Dynamic)
       => /\ status = "constructed"
          /\ xpr.RowFactor = call.RowFactor /\ xpr.ColFactor = call.ColFactor
          /\ value(xpr.m_rowFactor) = call.RowFactor
          /\ value(xpr.m_colFactor) = call.ColFactor
    /\ call.ctor = "dynamic" => status = "constructed"

C6_Witness ==
    /\ status = "assert_failed"
    /\ call.ctor = "fixed"
    /\ call.RowFactor = 2 /\ call.ColFactor = Dynamic

\* C7: with compile-time row factor 1 coeff passes the row unchanged and the
\* column modulo sourceCols; symmetrically with column factor 1; and each
\* fast path returns what the general path (both moduli) returns.
C7_FastPaths ==
    Accessed =>
      /\ xpr.RowFactor = 1 =>
           /\ access.srcRow = access.row
           /\ access.srcCol = access.col % Cols(xpr.m_matrix)
           /\ ReturnsExpected
      /\ xpr.ColFactor = 1 =>
           /\ access.srcCol = access.col
           /\ access.srcRow = access.row % Rows(xpr.m_matrix)
           /\ ReturnsExpected

\* C8: when neither compile-time factor is 1, coeff takes the general branch
\* and returns the source element at (row mod sourceRows, col mod sourceCols).
C8_GeneralBranch ==
    (Accessed /\ xpr.RowFactor # 1 /\ xpr.ColFactor # 1)
    => /\ access.srcRow = access.row % m.rows
       /\ access.srcCol = access.col % m.cols
       /\ ReturnsExpected

C8_Witness ==
    /\ Accessed
    /\ m.coeffs = (<<0, 0>> :> 1 @@ <<0, 1>> :> 2 @@ <<1, 0>> :> 3 @@ <<1, 1>> :> 4)
    /\ xpr.RowFactor = Dynamic /\ xpr.ColFactor = Dynamic
    /\ value(xpr.m_rowFactor) = 2 /\ value(xpr.m_colFactor) = 3
    /\ rows(xpr) = 4 /\ cols(xpr) = 6
    /\ access.row = 3 /\ access.col = 5
    /\ access.outcome = "value" /\ access.value = 4

\* C9: the compile-time row count is Dynamic if the row factor or the
\* source's compile-time row count is Dynamic and otherwise their product
\* (same for columns); the maximum counts equal them; and a count that is
\* not Dynamic equals the runtime rows() / cols().
C9_CompileTimeSizes ==
    Constructed =>
      /\ RowsAtCompileTime(xpr) =
           IF call.RowFactor = Dynamic \/ m.RowsAtCompileTime = Dynamic
           THEN Dynamic ELSE call.RowFactor * m.RowsAtCompileTime
      /\ ColsAtCompileTime(xpr) =
           IF call.ColFactor = Dynamic \/ m.ColsAtCompileTime = Dynamic
           THEN Dynamic ELSE call.ColFactor * m.ColsAtCompileTime
      /\ MaxRowsAtCompileTime(xpr) = RowsAtCompileTime(xpr)
      /\ MaxColsAtCompileTime(xpr) = ColsAtCompileTime(xpr)
      /\ RowsAtCompileTime(xpr) # Dynamic => RowsAtCompileTime(xpr) = rows(xpr)
      /\ ColsAtCompileTime(xpr) # Dynamic => ColsAtCompileTime(xpr) = cols(xpr)

C9_Witness ==
    /\ Constructed
    /\ m.RowsAtCompileTime = 2 /\ m.ColsAtCompileTime = Dynamic
    /\ call.RowFactor = 3 /\ call.ColFactor = 2
    /\ RowsAtCompileTime(xpr) = 6 /\ rows(xpr) = 6
    /\ ColsAtCompileTime(xpr) = Dynamic

\* C10: for every call within the precondition, in every branch, the index
\* pair coeff hands to the source lies within the source's bounds.
C10_SourceIndexInRange ==
    Accessed => /\ access.srcRow \in 0..(Rows(xpr.m_matrix) - 1)
                /\ access.srcCol \in 0..(Cols(xpr.m_matrix) - 1)

====
